---- MODULE Spec2Model ----
(***************************************************************************)
(* Model of the accent-benchmark manifest pipeline                         *)
(* (src/qc_and_build_splits.py): the quality gate qc_rows, the surrogate   *)
(* speaker ids, the speaker-grouped train/dev/test splitter and the        *)
(* artifacts main() writes.                                                *)
(*                                                                         *)
(* Time is counted in sample periods at 16 kHz ("ticks"): a measured       *)
(* duration frames/samplerate is then an integer, a manifest duration      *)
(* (written with three decimals) is a number of milliseconds, and one      *)
(* millisecond is 16 ticks.  The code compares IEEE doubles; every         *)
(* comparison the model makes is between values that differ by at least    *)
(* one tick or are equal, except abs(a-b) > DUR_ABS_TOL at a difference of *)
(* exactly 0.100 s, which the binary rounding of the operands decides:     *)
(* the input sets below stay one millisecond off that tie.  They also stay *)
(* off frame counts that fall exactly between two milliseconds, where      *)
(* "%.3f" rounds by the binary value.                                      *)
(***************************************************************************)
EXTENDS Integers, Sequences, FiniteSets, TLC

VARIABLES
    rows,       \* the manifest as read_manifest returns it
    fs,         \* the audio files: path -> what Path.exists / sf.info see
    pc,         \* position of main()
    kept,       \* qc_rows: kept rows
    rejected,   \* qc_rows: rejected rows
    items,      \* JSONL items of the kept rows
    rest,       \* groups left after the test split
    test,       \* groups of the test partition
    train,      \* groups of the train partition
    dev,        \* groups of the dev partition
    mode,       \* per split boundary: which branch of try/except produced it
    disk,       \* artifacts written: name -> [exists, lines]
    log,        \* what the run printed
    rng,        \* the values of the seeded shuffle drawn so far
    run,        \* 1 for the first run on this input, 2 for the repetition
    first,      \* what the first run produced
    audit       \* audit(): its position, its dictionaries and what it printed

vars == <<rows, fs, pc, kept, rejected, items, rest, test, train, dev,
          mode, disk, log, rng, run, first, audit>>

-----------------------------------------------------------------------------
(* Bounds *)

MaxRows == 4
MaxQcRows == 1
MaxIdRows == 3
MaxDomainRows == 1
MaxAuditLines == 2
MaxLabelGroups == 7
MaxManifestRows == 4

-----------------------------------------------------------------------------
(* Parameters of the program *)

TARGET_SR == 16000
TicksPerMs == TARGET_SR \div 1000

\* MIN_DUR = 0.3 s, MAX_DUR = 30.0 s, DUR_ABS_TOL = 0.10 s, in ticks
MIN_DUR == (3 * TARGET_SR) \div 10
MAX_DUR == 30 * TARGET_SR
DUR_ABS_TOL == (10 * TARGET_SR) \div 100
REQUIRE_MIN_TOKENS == 1
\* TEST_SIZE = 0.15 and DEV_FRACTION_OF_REST = 0.10, in percent
TEST_SIZE == 15
DEV_FRACTION_OF_REST == 10

-----------------------------------------------------------------------------
(* Values *)

\* A Python float or None.
None == [k |-> "None", v |-> 0]
NaN == [k |-> "nan", v |-> 0]
Num(t) == [k |-> "num", v |-> t]

\* The text of a duration cell: "", an unparseable text, "nan", or a number
\* with three decimals (ms thousandths of a second).
EmptyCell == [kind |-> "empty", ms |-> 0]
TextCell == [kind |-> "text", ms |-> 0]
NanCell == [kind |-> "nan", ms |-> 0]
MsCell(m) == [kind |-> "num", ms |-> m]

\* An audio file as the probes see it.
Missing ==
    [exists |-> FALSE, readable |-> FALSE, samplerate |-> 0, frames |-> 0,
     channels |-> 0]
Corrupt ==
    [exists |-> TRUE, readable |-> FALSE, samplerate |-> 0, frames |-> 0,
     channels |-> 0]
Wav(n) ==
    [exists |-> TRUE, readable |-> TRUE, samplerate |-> TARGET_SR, frames |-> n,
     channels |-> 1]

Range(s) == {s[i] : i \in 1..Len(s)}

SortedSeq(S) ==
    [i \in 1..Cardinality(S) |-> CHOOSE x \in S : Cardinality({y \in S : y < x}) = i - 1]

-----------------------------------------------------------------------------
(* file_duration_sec and the parsing / formatting of durations *)

\* sf.info raises for a missing or unreadable file; a zero sample rate or
\* frame count is falsy: all give None.  info.frames / float(info.samplerate)
\* in ticks, for a sample rate that divides 16 kHz.
file_duration_sec(f) ==
    IF f.readable /\ f.samplerate # 0 /\ f.frames # 0
    THEN Num(f.frames * (TARGET_SR \div f.samplerate))
    ELSE None

\* float(r.get("duration", "") or "nan") inside try/except
ParseDuration(cell) ==
    CASE cell.kind = "empty" -> NaN
      [] cell.kind = "nan" -> NaN
      [] cell.kind = "text" -> None
      [] OTHER -> Num(cell.ms * TicksPerMs)

\* f"{x:.3f}": the nearest millisecond
RoundMs(t) == (t + TicksPerMs \div 2) \div TicksPerMs

Format3(x) ==
    CASE x.k = "None" -> EmptyCell
      [] x.k = "nan" -> NanCell
      [] OTHER -> MsCell(RoundMs(x.v))

\* Python comparisons of floats: every comparison with nan is False.
Less(a, b) == a.k = "num" /\ b.k = "num" /\ a.v < b.v

\* Variant: the difference without abs().
SignedDiff(a, b) == a.v - b.v

AbsDiff(a, b) == IF a.v >= b.v THEN a.v - b.v ELSE b.v - a.v

\* len(text.strip().split()): the maximal runs of non-blank characters
TokenCount(text) ==
    Cardinality({i \in 1..Len(text) :
        text[i] # " " /\ (i = 1 \/ text[i - 1] = " ")})

-----------------------------------------------------------------------------
(* qc_rows *)

\* The resolved duration: the file's when it has one, else the manifest's.
ResolvedDuration(r, f) ==
    IF file_duration_sec(f) # None THEN file_duration_sec(f)
    ELSE ParseDuration(r.duration)

DurationReasons(r, f) ==
    LET duration == ResolvedDuration(r, f)
    IN  IF duration = None THEN <<"no_duration">>
        ELSE (IF Less(duration, Num(MIN_DUR)) THEN <<"too_short">> ELSE <<>>)
             \o (IF Less(Num(MAX_DUR), duration) THEN <<"too_long">> ELSE <<>>)

\* Variant: a file without a duration is compared as one of 0 s.
MismatchReasonsNoneAsZero(r, f) ==
    LET dur_manifest == ParseDuration(r.duration)
        dur_file == IF file_duration_sec(f) = None THEN Num(0)
                    ELSE file_duration_sec(f)
    IN  IF /\ dur_manifest # None
           /\ dur_manifest.k = "num"
           /\ AbsDiff(dur_manifest, dur_file) > DUR_ABS_TOL
        THEN <<"duration_mismatch">> ELSE <<>>

MismatchReasons(r, f) ==
    LET dur_manifest == ParseDuration(r.duration)
        dur_file == file_duration_sec(f)
    IN  IF /\ dur_manifest # None
           /\ dur_file # None
           /\ dur_manifest.k = "num"
           /\ AbsDiff(dur_manifest, dur_file) > DUR_ABS_TOL
        THEN <<"duration_mismatch">> ELSE <<>>

Reasons(r, f) ==
    (IF ~f.exists THEN <<"file_missing">> ELSE <<>>)
    \o (IF REQUIRE_MIN_TOKENS # 0 /\ TokenCount(r.text) < REQUIRE_MIN_TOKENS
        THEN <<"text_too_short">> ELSE <<>>)
    \o DurationReasons(r, f)
    \o MismatchReasons(r, f)

RejectedRecord(r, f) ==
    [row |-> r,
     reject_reasons |-> Reasons(r, f),
     dur_file |-> Format3(file_duration_sec(f)),
     dur_manifest |-> Format3(ParseDuration(r.duration))]

\* Variant: the duration is overwritten whether or not the file gave one.
KeptRecordOverwritten(r, f) ==
    [r EXCEPT !.duration = Format3(file_duration_sec(f))]

KeptRecord(r, f) ==
    IF file_duration_sec(f) # None
    THEN [r EXCEPT !.duration = Format3(file_duration_sec(f))]
    ELSE r

QcKept(rs, files) ==
    LET idx == {i \in 1..Len(rs) : Reasons(rs[i], files[rs[i].path]) = <<>>}
        ord == SortedSeq(idx)
    IN  [k \in 1..Len(ord) |-> KeptRecord(rs[ord[k]], files[rs[ord[k]].path])]

QcRejected(rs, files) ==
    LET idx == {i \in 1..Len(rs) : Reasons(rs[i], files[rs[i].path]) # <<>>}
        ord == SortedSeq(idx)
    IN  [k \in 1..Len(ord) |-> RejectedRecord(rs[ord[k]], files[rs[ord[k]].path])]

-----------------------------------------------------------------------------
(* make_speaker_ids, to_jsonl_item *)

OrDefault(s, d) == IF s = "" THEN d ELSE s

\* The (l1, state, gender) key of a row.  The input sets hold no value with
\* surrounding blanks, so strip() is the identity on them.
SpeakerKey(r) ==
    <<OrDefault(r.primary_language, "UNK"),
      OrDefault(r.native_place_state, "UNK"),
      OrDefault(r.gender, "U")>>

Digits == <<"0", "1", "2", "3", "4", "5", "6", "7", "8", "9">>
Digit(d) == Digits[d + 1]

\* f"{n:04d}" for a count below 10000
Format04d(n) ==
    Digit((n \div 1000) % 10) \o Digit((n \div 100) % 10)
        \o Digit((n \div 10) % 10) \o Digit(n % 10)

\* Variant: one counter per (l1, state), whatever the gender.
CountPerLabel(rs, i) ==
    Cardinality({j \in 1..i :
        /\ SpeakerKey(rs[j])[1] = SpeakerKey(rs[i])[1]
        /\ SpeakerKey(rs[j])[2] = SpeakerKey(rs[i])[2]})

\* ctr[key] += 1: the number of rows up to the i-th that have its key
CountPerKey(rs, i) ==
    Cardinality({j \in 1..i : SpeakerKey(rs[j]) = SpeakerKey(rs[i])})

\* f"SPK_{l1}_{st}_{ctr[key]:04d}": language, state and the running count of
\* the row's key; the gender is part of the key and not of the identifier.
make_speaker_ids(rs) ==
    [i \in 1..Len(rs) |->
        "SPK_" \o SpeakerKey(rs[i])[1] \o "_" \o SpeakerKey(rs[i])[2]
            \o "_" \o Format04d(CountPerKey(rs, i))]

DOMAIN_PRIORITY == <<"occupation_domain", "job_category">>

\* r.get(c, "")
Get(r, c) == IF c \in DOMAIN r THEN r[c] ELSE ""

\* Variant: the candidates are tried from the last to the first.
pick_domain_reversed(r) ==
    LET hit == {k \in 1..Len(DOMAIN_PRIORITY) : Get(r, DOMAIN_PRIORITY[k]) # ""}
    IN  IF hit = {} THEN "general"
        ELSE Get(r, DOMAIN_PRIORITY[CHOOSE k \in hit : \A l \in hit : l <= k])

\* for c in DOMAIN_PRIORITY: v = r.get(c, ""); if v: return v
\* return "general"
pick_domain(r) ==
    LET hit == {k \in 1..Len(DOMAIN_PRIORITY) : Get(r, DOMAIN_PRIORITY[k]) # ""}
    IN  IF hit = {} THEN "general"
        ELSE Get(r, DOMAIN_PRIORITY[CHOOSE k \in hit : \A l \in hit : k <= l])

\* float(r["duration"]) if r.get("duration") else None
ItemDuration(cell) ==
    IF cell.kind = "empty" THEN None ELSE ParseDuration(cell)

to_jsonl_item(r, spk) ==
    [audio_filepath |-> r.path,
     duration |-> ItemDuration(r.duration),
     text |-> r.text,
     speaker_id |-> spk,
     l1 |-> r.primary_language,
     state |-> r.native_place_state,
     gender |-> r.gender,
     domain |-> pick_domain(r)]

-----------------------------------------------------------------------------
(* stratified_speaker_splits *)

\* Variant: every item a group of its own.
GroupByItem(its) == [k \in 1..Len(its) |-> <<its[k]>>]

\* by_spk: the items of each speaker_id, the groups in order of first
\* appearance (dict insertion order).
GroupBySpeaker(its) ==
    LET firsts == {i \in 1..Len(its) :
                      \A j \in 1..(i - 1) : its[j].speaker_id # its[i].speaker_id}
        ord == SortedSeq(firsts)
    IN  [k \in 1..Len(ord) |->
            SelectSeq(its, LAMBDA it : it.speaker_id = its[ord[k]].speaker_id)]

\* label(g): f"{l1}|{state}" of the group's first item
Label(g) == <<g[1].l1, g[1].state>>

Labels(gs) == [i \in 1..Len(gs) |-> Label(gs[i])]

\* Variant: only the first item of each group is emitted.
FlattenHeads(gs) == [k \in 1..Len(gs) |-> gs[k][1]]

RECURSIVE Flatten(_)
Flatten(gs) == IF gs = <<>> THEN <<>> ELSE Head(gs) \o Flatten(Tail(gs))

\* Variant: the test places are rounded to the nearest whole number.
NTestRounded(n, pct) == (n * pct + 50) \div 100

\* Variant: the test places are rounded down.
NTestFloor(n, pct) == (n * pct) \div 100

\* sklearn's _validate_shuffle_split with a float test_size and no
\* train_size: n_test = ceil(test_size * n), n_train = n - n_test.
NTest(n, pct) == (n * pct + 99) \div 100
NTrain(n, pct) == n - NTest(n, pct)

\* Variant: an empty train set is let through.
SplitErrorNegative(n, pct) == NTrain(n, pct) < 0

\* ValueError of the unstratified split: the train set would be empty.
SplitError(n, pct) == NTrain(n, pct) <= 0

ClassCount(y, c) == Cardinality({i \in 1..Len(y) : y[i] = c})

\* Variant: the test places are not compared with the number of classes.
StratifyErrorNoTestCheck(y, pct) ==
    \/ SplitError(Len(y), pct)
    \/ \E c \in Range(y) : ClassCount(y, c) < 2
    \/ NTrain(Len(y), pct) < Cardinality(Range(y))

\* ValueError of the stratified split: an empty train set, a class with a
\* single member, or fewer train or test places than classes.
StratifyError(y, pct) ==
    \/ SplitError(Len(y), pct)
    \/ \E c \in Range(y) : ClassCount(y, c) < 2
    \/ NTrain(Len(y), pct) < Cardinality(Range(y))
    \/ NTest(Len(y), pct) < Cardinality(Range(y))

Perms(n) == {p \in [1..n -> 1..n] : \A i, j \in 1..n : p[i] = p[j] => i = j}

\* A shuffle is a permutation p of the indices: the test part is
\* p[1..n_test], the train part the rest.  A stratified shuffle gives each
\* class its share of the train places, rounded down or up.
TrainIdx(p, n_test) == [i \in 1..(Len(p) - n_test) |-> p[n_test + i]]
TestIdx(p, n_test) == [i \in 1..n_test |-> p[i]]

Proportional(y, p, pct) ==
    LET n == Len(y)
        tr == Range(TrainIdx(p, NTest(n, pct)))
    IN  \A c \in Range(y) :
            LET got == Cardinality({i \in tr : y[i] = c})
                share == ClassCount(y, c) * NTrain(n, pct)
            IN  /\ got >= share \div n
                /\ got <= (share + n - 1) \div n

\* The call train_test_split(xs, test_size, random_state=42, stratify):
\* key.y is the stratify array (<<>> for None).
SplitKey(n, pct, strat, y) ==
    [n |-> n, pct |-> pct, strat |-> strat, y |-> IF strat THEN y ELSE <<>>]

Shuffles(key) ==
    {p \in Perms(key.n) : key.strat => Proportional(key.y, p, key.pct)}

\* Variant: no random_state, every call draws afresh.
UnseededShuffles(key, memo) == Shuffles(key)

\* random_state=42: the shuffle is a function of the call's arguments.  The
\* model leaves its values open and fixes each one the first time it is drawn.
SeededShuffles(key, memo) ==
    IF key \in DOMAIN memo THEN {memo[key]} ELSE Shuffles(key)

Remember(memo, key, p) ==
    [k \in DOMAIN memo \cup {key} |-> IF k = key THEN p ELSE memo[k]]

\* Variant: no except clause, the first ValueError ends the run.
SplitModeNoExcept(y, stratify, pct) ==
    IF stratify /\ ~StratifyError(y, pct) THEN "stratified"
    ELSE IF ~stratify /\ ~SplitError(Len(y), pct) THEN "unstratified"
    ELSE "error"

\* Variant: the except clause passes stratify again.
SplitModeRetryStratified(y, stratify, pct) ==
    IF stratify /\ ~StratifyError(y, pct) THEN "stratified"
    ELSE IF ~stratify /\ ~SplitError(Len(y), pct) THEN "unstratified"
    ELSE IF ~StratifyError(y, pct) THEN "fallback"
    ELSE "error"

\* The branch of try/except that yields the split: the first call, the call
\* in the except clause, or the ValueError of that second call.
SplitMode(y, stratify, pct) ==
    IF stratify /\ ~StratifyError(y, pct) THEN "stratified"
    ELSE IF ~stratify /\ ~SplitError(Len(y), pct) THEN "unstratified"
    ELSE IF ~SplitError(Len(y), pct) THEN "fallback"
    ELSE "error"

\* The first boundary: stratify=y
TestMode(groups) == SplitMode(Labels(groups), TRUE, TEST_SIZE)

\* The second boundary: stratify=y_rest if len(set(y_rest)) > 1 else None
DevMode(rs) ==
    LET y_rest == Labels(rs)
    IN  SplitMode(y_rest, Cardinality(Range(y_rest)) > 1, DEV_FRACTION_OF_REST)

Take(xs, idx) == [i \in 1..Len(idx) |-> xs[idx[i]]]

-----------------------------------------------------------------------------
(* Inputs *)

\* Transcripts, character by character.
Texts == {<<>>, <<" ">>, <<"o", "k">>, <<"a", " ", "b">>}

Row(p, cell, text, lang, gender) ==
    [path |-> p, duration |-> cell, text |-> text, gender |-> gender,
     primary_language |-> lang, native_place_state |-> "Delhi",
     occupation_domain |-> "", job_category |-> ""]

\* The pipeline runs on rows that differ in speaker attributes and in
\* whether the audio file is there: 5.2 s of audio claimed as 5.150 s.
GoodWav == Wav(83200)
PipelineFiles == {GoodWav, Missing}
Speakers == {<<"hindi", "F">>, <<"hindi", "M">>, <<"tamil", "F">>}
PipelineRows(n) ==
    [1..n -> {Row(0, MsCell(5150), <<"o", "k">>, sp[1], sp[2]) : sp \in Speakers}]

\* The quality gate alone runs on one speaker's rows with every kind of
\* file and of duration cell around the limits: 0.299 s, 0.3 s, 5.2 s,
\* 5.20025 s, 30 s and 30.001 s of audio, or none; claimed durations below
\* and above the limits and 0.050 s, 0.101 s and 0.2 s off the 5.2 s.
QcFiles == {Missing, Corrupt, Wav(0), Wav(4784), Wav(4800), Wav(83200),
            Wav(83204), Wav(480000), Wav(480016)}
QcCells == {EmptyCell, TextCell, MsCell(250), MsCell(5000), MsCell(5099),
            MsCell(5150), MsCell(5301), MsCell(31000)}
QcRowSet(n) ==
    [1..n -> {Row(0, c, t, "hindi", "F") : c \in QcCells, t \in Texts}]

\* Every row has its own path, as the export that writes the manifest
\* numbers the audio files.
WithPaths(rs) == [i \in 1..Len(rs) |-> [rs[i] EXCEPT !.path = i]]

FileNames == {"clean_manifest.csv", "rejected.csv",
              "train.jsonl", "dev.jsonl", "test.jsonl"}
Absent == [exists |-> FALSE, lines |-> <<>>]
File(lines) == [exists |-> TRUE, lines |-> lines]

NoRun == [spk |-> <<>>, train |-> <<>>, dev |-> <<>>, test |-> <<>>]
Pending == [b1 |-> "pending", b2 |-> "pending"]

\* audit() before its loop: stats = {}, speakers = {}, combos = {}
AuditStart ==
    [pc |-> "scan", k |-> 1, stats |-> <<>>, speakers |-> <<>>,
     combos |-> <<>>, leaks |-> <<>>, out |-> <<>>]

InitRun ==
    /\ kept = <<>>
    /\ rejected = <<>>
    /\ items = <<>>
    /\ rest = <<>>
    /\ test = <<>>
    /\ train = <<>>
    /\ dev = <<>>
    /\ mode = Pending
    /\ disk = [f \in FileNames |-> Absent]
    /\ log = <<>>
    /\ rng = <<>>
    /\ run = 1
    /\ first = NoRun
    /\ audit = AuditStart

Init ==
    /\ \E n \in 0..MaxRows :
         /\ \E rs \in PipelineRows(n) : rows = WithPaths(rs)
         /\ fs \in [1..n -> PipelineFiles]
    /\ pc = "read"
    /\ InitRun

InitQC ==
    /\ \E n \in 1..MaxQcRows :
         /\ \E rs \in QcRowSet(n) : rows = WithPaths(rs)
         /\ fs \in [1..n -> QcFiles]
    /\ pc = "qc"
    /\ InitRun

-----------------------------------------------------------------------------
(* main *)

\* Variant: the rows are not looked at.
ReadManifestUnchecked ==
    /\ pc = "read"
    /\ pc' = "qc"
    /\ UNCHANGED <<audit, rows, fs, kept, rejected, items, rest, test, train,
                   dev, mode, disk, log, rng, run, first>>

\* rows = read_manifest(CSV_IN); if not rows: raise SystemExit(...)
ReadManifest ==
    /\ pc = "read"
    /\ IF rows = <<>>
       THEN /\ pc' = "aborted"
            /\ log' = Append(log, <<"No rows in", "manifest.csv">>)
       ELSE /\ pc' = "qc"
            /\ log' = log
    /\ UNCHANGED <<audit, rows, fs, kept, rejected, items, rest, test, train, dev,
                   mode, disk, rng, run, first>>

\* kept, rejected = qc_rows(rows)
QcRows ==
    /\ pc = "qc"
    /\ kept' = QcKept(rows, fs)
    /\ rejected' = QcRejected(rows, fs)
    /\ pc' = "write_clean"
    /\ UNCHANGED <<audit, rows, fs, items, rest, test, train, dev, mode, disk, log,
                   rng, run, first>>

\* write_csv(CLEAN_CSV, kept)
WriteClean ==
    /\ pc = "write_clean"
    /\ disk' = [disk EXCEPT !["clean_manifest.csv"] = File(kept)]
    /\ pc' = "write_reject"
    /\ UNCHANGED <<audit, rows, fs, kept, rejected, items, rest, test, train, dev,
                   mode, log, rng, run, first>>

\* Variant: the rejected rows are counted and not written.
WriteRejectSkipped ==
    /\ pc = "write_reject"
    /\ log' = log \o <<<<"QC SUMMARY", Len(rows)>>, <<"Kept", Len(kept)>>,
                       <<"Rejected", Len(rejected)>>>>
    /\ pc' = "items"
    /\ UNCHANGED <<audit, rows, fs, kept, rejected, items, rest, test, train,
                   dev, mode, disk, rng, run, first>>

\* write_csv(REJECT_CSV, rejected) and the QC summary
WriteReject ==
    /\ pc = "write_reject"
    /\ disk' = [disk EXCEPT !["rejected.csv"] = File(rejected)]
    /\ log' = log \o <<<<"QC SUMMARY", Len(rows)>>, <<"Kept", Len(kept)>>,
                       <<"Rejected", Len(rejected)>>>>
    /\ pc' = "items"
    /\ UNCHANGED <<audit, rows, fs, kept, rejected, items, rest, test, train, dev,
                   mode, rng, run, first>>

\* spk_ids = make_speaker_ids(kept); items = [to_jsonl_item(r, s) ...]
BuildItems ==
    /\ pc = "items"
    /\ items' = [i \in 1..Len(kept) |->
                    to_jsonl_item(kept[i], make_speaker_ids(kept)[i])]
    /\ pc' = "split_test"
    /\ UNCHANGED <<audit, rows, fs, kept, rejected, rest, test, train, dev, mode,
                   disk, log, rng, run, first>>

\* A ValueError that leaves stratified_speaker_splits ends the run.
Raise(b, m) ==
    /\ pc' = "aborted"
    /\ mode' = [mode EXCEPT ![b] = m]
    /\ log' = Append(log, <<"ValueError", 0>>)

\* try: rest, test = train_test_split(groups, TEST_SIZE, 42, stratify=y)
\* except ValueError: rest, test = train_test_split(groups, TEST_SIZE, 42)
SplitTest ==
    /\ pc = "split_test"
    /\ LET groups == GroupBySpeaker(items)
           y == Labels(groups)
           m == TestMode(groups)
           key == SplitKey(Len(groups), TEST_SIZE, m = "stratified", y)
           n_test == NTest(Len(groups), TEST_SIZE)
       IN  IF m = "error"
           THEN /\ Raise("b1", m)
                /\ UNCHANGED <<rest, test, rng>>
           ELSE /\ \E p \in SeededShuffles(key, rng) :
                     /\ rest' = Take(groups, TrainIdx(p, n_test))
                     /\ test' = Take(groups, TestIdx(p, n_test))
                     /\ rng' = Remember(rng, key, p)
                /\ mode' = [mode EXCEPT !.b1 = m]
                /\ pc' = "split_dev"
                /\ log' = log
    /\ UNCHANGED <<audit, rows, fs, kept, rejected, items, train, dev, disk, run, first>>

\* try: train, dev = train_test_split(rest, DEV_FRACTION_OF_REST, 42,
\*          stratify=y_rest if len(set(y_rest)) > 1 else None)
\* except ValueError: train, dev = train_test_split(rest, DEV_FRACTION_OF_REST, 42)
SplitDev ==
    /\ pc = "split_dev"
    /\ LET y_rest == Labels(rest)
           m == DevMode(rest)
           key == SplitKey(Len(rest), DEV_FRACTION_OF_REST, m = "stratified", y_rest)
           n_test == NTest(Len(rest), DEV_FRACTION_OF_REST)
       IN  IF m = "error"
           THEN /\ Raise("b2", m)
                /\ UNCHANGED <<train, dev, rng>>
           ELSE /\ \E p \in SeededShuffles(key, rng) :
                     /\ train' = Take(rest, TrainIdx(p, n_test))
                     /\ dev' = Take(rest, TestIdx(p, n_test))
                     /\ rng' = Remember(rng, key, p)
                /\ mode' = [mode EXCEPT !.b2 = m]
                /\ pc' = "write_train"
                /\ log' = log
    /\ UNCHANGED <<audit, rows, fs, kept, rejected, items, rest, test, disk, run, first>>

\* write_jsonl(OUT_JSONL_DIR / "train.jsonl", train_items)
WriteTrain ==
    /\ pc = "write_train"
    /\ disk' = [disk EXCEPT !["train.jsonl"] = File(Flatten(train))]
    /\ pc' = "write_dev"
    /\ UNCHANGED <<audit, rows, fs, kept, rejected, items, rest, test, train, dev,
                   mode, log, rng, run, first>>

\* write_jsonl(OUT_JSONL_DIR / "dev.jsonl", dev_items)
WriteDev ==
    /\ pc = "write_dev"
    /\ disk' = [disk EXCEPT !["dev.jsonl"] = File(Flatten(dev))]
    /\ pc' = "write_test"
    /\ UNCHANGED <<audit, rows, fs, kept, rejected, items, rest, test, train, dev,
                   mode, log, rng, run, first>>

\* write_jsonl(OUT_JSONL_DIR / "test.jsonl", test_items) and the split summary
WriteTest ==
    /\ pc = "write_test"
    /\ disk' = [disk EXCEPT !["test.jsonl"] = File(Flatten(test))]
    /\ log' = log \o <<<<"SPLIT SUMMARY", 0>>, <<"train", Len(Flatten(train))>>,
                       <<"dev", Len(Flatten(dev))>>, <<"test", Len(Flatten(test))>>>>
    /\ pc' = "done"
    /\ UNCHANGED <<audit, rows, fs, kept, rejected, items, rest, test, train, dev,
                   mode, rng, run, first>>

\* The pipeline is run again on the same manifest and the same audio files.
Rerun ==
    /\ pc = "done"
    /\ run = 1
    /\ first' = [spk |-> [i \in 1..Len(items) |-> items[i].speaker_id],
                 train |-> disk["train.jsonl"].lines,
                 dev |-> disk["dev.jsonl"].lines,
                 test |-> disk["test.jsonl"].lines]
    /\ run' = 2
    /\ pc' = "read"
    /\ kept' = <<>>
    /\ rejected' = <<>>
    /\ items' = <<>>
    /\ rest' = <<>>
    /\ test' = <<>>
    /\ train' = <<>>
    /\ dev' = <<>>
    /\ mode' = Pending
    /\ log' = <<>>
    /\ UNCHANGED <<audit, rows, fs, disk, rng>>

Next ==
    \/ ReadManifest
    \/ QcRows
    \/ WriteClean
    \/ WriteReject
    \/ BuildItems
    \/ SplitTest
    \/ SplitDev
    \/ WriteTrain
    \/ WriteDev
    \/ WriteTest
    \/ Rerun

Spec == Init /\ [][Next]_vars

NextQC == QcRows

SpecQC == InitQC /\ [][NextQC]_vars

-----------------------------------------------------------------------------
(* main up to the JSONL items, on rows of every kind of speaker and domain *)

Languages == {"hindi", "tamil", ""}
States == {"Delhi", ""}
Genders == {"F", "M", ""}

\* Rows that pass the quality gate, each speaker attribute given or empty.
IdRows(n) ==
    [1..n -> {[Row(0, MsCell(5150), <<"o", "k">>, l, g)
                  EXCEPT !.native_place_state = st] :
              l \in Languages, st \in States, g \in Genders}]

\* A manifest column of a row: not there (<<>>), or there with a value.
Drop(r, c) == [k \in DOMAIN r \ {c} |-> r[k]]
SetColumn(r, c, cell) ==
    IF cell = <<>> THEN Drop(r, c) ELSE [r EXCEPT ![c] = cell[1]]

\* Rows that pass the quality gate, each domain column absent, empty or set.
DomainRows(n) ==
    [1..n -> {SetColumn(SetColumn(Row(0, MsCell(5150), <<"o", "k">>, sp[1], sp[2]),
                                  "occupation_domain", od),
                        "job_category", jc) :
              sp \in Speakers,
              od \in {<<>>, <<"">>, <<"software">>},
              jc \in {<<>>, <<"">>, <<"farming">>}}]

InitItems ==
    /\ \E n \in 1..MaxIdRows :
         /\ \E rs \in IdRows(n) : rows = WithPaths(rs)
         /\ fs = [i \in 1..n |-> GoodWav]
    /\ pc = "qc"
    /\ InitRun

InitDomain ==
    /\ \E n \in 1..MaxDomainRows :
         /\ \E rs \in DomainRows(n) : rows = WithPaths(rs)
         /\ fs = [i \in 1..n |-> GoodWav]
    /\ pc = "qc"
    /\ InitRun

NextItems ==
    \/ QcRows
    \/ WriteClean
    \/ WriteReject
    \/ BuildItems

SpecItems == InitItems /\ [][NextItems]_vars

SpecDomain == InitDomain /\ [][NextItems]_vars

-----------------------------------------------------------------------------
(* The try/except of the two split boundaries, each on the same groups *)

\* The items of a groups of one label and b groups of another, one record
\* to a group.
LabelledItems(a, b) ==
    LET rs == [i \in 1..(a + b) |->
                  Row(i, MsCell(5200), <<"o", "k">>,
                      IF i <= a THEN "hindi" ELSE "tamil", "F")]
    IN  [i \in 1..(a + b) |-> to_jsonl_item(rs[i], make_speaker_ids(rs)[i])]

InitDecide ==
    /\ rows = <<>>
    /\ fs = <<>>
    /\ pc = "split_test"
    /\ kept = <<>>
    /\ rejected = <<>>
    /\ \E a, b \in 0..MaxLabelGroups : items = LabelledItems(a, b)
    /\ rest = <<>>
    /\ test = <<>>
    /\ train = <<>>
    /\ dev = <<>>
    /\ mode = Pending
    /\ disk = [f \in FileNames |-> Absent]
    /\ log = <<>>
    /\ rng = <<>>
    /\ run = 1
    /\ first = NoRun
    /\ audit = AuditStart

\* The try/except of the first boundary on the groups; the groups are
\* handed on whole, for the second boundary to decide on the same labels.
DecideTest ==
    /\ pc = "split_test"
    /\ mode' = [mode EXCEPT !.b1 = TestMode(GroupBySpeaker(items))]
    /\ rest' = GroupBySpeaker(items)
    /\ pc' = "split_dev"
    /\ UNCHANGED <<audit, rows, fs, kept, rejected, items, test, train, dev,
                   disk, log, rng, run, first>>

\* The try/except of the second boundary on the groups it is handed.
DecideDev ==
    /\ pc = "split_dev"
    /\ mode' = [mode EXCEPT !.b2 = DevMode(rest)]
    /\ pc' = "decided"
    /\ UNCHANGED <<audit, rows, fs, kept, rejected, items, rest, test, train,
                   dev, disk, log, rng, run, first>>

NextDecide ==
    \/ DecideTest
    \/ DecideDev

SpecDecide == InitDecide /\ [][NextDecide]_vars

-----------------------------------------------------------------------------
(* main of src/data/manifests/build_manifests.py *)

\* key = (primary_language, native_place_state, gender) as parse_csv gave
\* them; counter[key] += 1
ManifestCount(rs, i) ==
    Cardinality({j \in 1..i :
        /\ rs[j].primary_language = rs[i].primary_language
        /\ rs[j].native_place_state = rs[i].native_place_state
        /\ rs[j].gender = rs[i].gender})

\* f"SPK_{language or 'UNK'}_{state or 'UNK'}_{counter[key]:04d}"
ManifestSpeakerId(rs, i) ==
    "SPK_" \o OrDefault(rs[i].primary_language, "UNK") \o "_"
        \o OrDefault(rs[i].native_place_state, "UNK") \o "_"
        \o Format04d(ManifestCount(rs, i))

\* y = [f"{it.get('l1','')}|{it.get('state','')}" for it in json_items]
ItemLabels(its) == [i \in 1..Len(its) |-> <<its[i].l1, its[i].state>>]

InitManifests ==
    /\ \E n \in 0..MaxManifestRows :
         /\ \E rs \in PipelineRows(n) : rows = WithPaths(rs)
         /\ fs = [i \in 1..n |-> GoodWav]
    /\ pc = "m_items"
    /\ InitRun

\* The loop that builds json_items, one item to a row, none grouped.
BuildManifestItems ==
    /\ pc = "m_items"
    /\ items' = [i \in 1..Len(rows) |->
                    to_jsonl_item(rows[i], ManifestSpeakerId(rows, i))]
    /\ pc' = "m_try"
    /\ UNCHANGED <<audit, rows, fs, kept, rejected, rest, test, train, dev, mode,
                   disk, log, rng, run, first>>

\* try: both splits of the items with stratify; a ValueError of either
\* leads to the except clause.
TrySplits ==
    /\ pc = "m_try"
    /\ LET y == ItemLabels(items)
           key1 == SplitKey(Len(items), TEST_SIZE, TRUE, y)
           n1 == NTest(Len(items), TEST_SIZE)
       IN  IF StratifyError(y, TEST_SIZE)
           THEN /\ pc' = "m_except"
                /\ UNCHANGED <<rest, test, train, dev, mode, rng>>
           ELSE \E p1 \in SeededShuffles(key1, rng) :
                   LET r1 == Take(items, TrainIdx(p1, n1))
                       y_rest == ItemLabels(r1)
                       key2 == SplitKey(Len(r1), DEV_FRACTION_OF_REST, TRUE, y_rest)
                       n2 == NTest(Len(r1), DEV_FRACTION_OF_REST)
                       memo == Remember(rng, key1, p1)
                   IN  /\ rest' = r1
                       /\ test' = Take(items, TestIdx(p1, n1))
                       /\ IF StratifyError(y_rest, DEV_FRACTION_OF_REST)
                          THEN /\ pc' = "m_except"
                               /\ rng' = memo
                               /\ UNCHANGED <<train, dev, mode>>
                          ELSE \E p2 \in SeededShuffles(key2, memo) :
                                  /\ train' = Take(r1, TrainIdx(p2, n2))
                                  /\ dev' = Take(r1, TestIdx(p2, n2))
                                  /\ rng' = Remember(memo, key2, p2)
                                  /\ mode' = [b1 |-> "stratified", b2 |-> "stratified"]
                                  /\ pc' = "m_write_train"
    /\ UNCHANGED <<audit, rows, fs, kept, rejected, items, disk, log, run, first>>

\* except ValueError: both splits again without stratify; a ValueError of
\* either ends the run.
ExceptSplits ==
    /\ pc = "m_except"
    /\ LET key1 == SplitKey(Len(items), TEST_SIZE, FALSE, <<>>)
           n1 == NTest(Len(items), TEST_SIZE)
       IN  IF SplitError(Len(items), TEST_SIZE)
           THEN /\ Raise("b1", "error")
                /\ UNCHANGED <<rest, test, train, dev, rng>>
           ELSE \E q1 \in SeededShuffles(key1, rng) :
                   LET r1 == Take(items, TrainIdx(q1, n1))
                       key2 == SplitKey(Len(r1), DEV_FRACTION_OF_REST, FALSE, <<>>)
                       n2 == NTest(Len(r1), DEV_FRACTION_OF_REST)
                       memo == Remember(rng, key1, q1)
                   IN  /\ rest' = r1
                       /\ test' = Take(items, TestIdx(q1, n1))
                       /\ IF SplitError(Len(r1), DEV_FRACTION_OF_REST)
                          THEN /\ Raise("b2", "error")
                               /\ rng' = memo
                               /\ UNCHANGED <<train, dev>>
                          ELSE \E q2 \in SeededShuffles(key2, memo) :
                                  /\ train' = Take(r1, TrainIdx(q2, n2))
                                  /\ dev' = Take(r1, TestIdx(q2, n2))
                                  /\ rng' = Remember(memo, key2, q2)
                                  /\ mode' = [b1 |-> "fallback", b2 |-> "fallback"]
                                  /\ pc' = "m_write_train"
                                  /\ log' = log
    /\ UNCHANGED <<audit, rows, fs, kept, rejected, items, disk, run, first>>

\* write_jsonl(OUT_DIR / "train.jsonl", train)
WriteManifestTrain ==
    /\ pc = "m_write_train"
    /\ disk' = [disk EXCEPT !["train.jsonl"] = File(train)]
    /\ pc' = "m_write_dev"
    /\ UNCHANGED <<audit, rows, fs, kept, rejected, items, rest, test, train, dev,
                   mode, log, rng, run, first>>

\* write_jsonl(OUT_DIR / "dev.jsonl", dev)
WriteManifestDev ==
    /\ pc = "m_write_dev"
    /\ disk' = [disk EXCEPT !["dev.jsonl"] = File(dev)]
    /\ pc' = "m_write_test"
    /\ UNCHANGED <<audit, rows, fs, kept, rejected, items, rest, test, train, dev,
                   mode, log, rng, run, first>>

\* write_jsonl(OUT_DIR / "test.jsonl", test) and the closing message
WriteManifestTest ==
    /\ pc = "m_write_test"
    /\ disk' = [disk EXCEPT !["test.jsonl"] = File(test)]
    /\ log' = Append(log, <<"Done", <<Len(train), Len(dev), Len(test)>>>>)
    /\ pc' = "m_done"
    /\ UNCHANGED <<audit, rows, fs, kept, rejected, items, rest, test, train, dev,
                   mode, rng, run, first>>

NextManifests ==
    \/ BuildManifestItems
    \/ TrySplits
    \/ ExceptSplits
    \/ WriteManifestTrain
    \/ WriteManifestDev
    \/ WriteManifestTest

SpecManifests == InitManifests /\ [][NextManifests]_vars

-----------------------------------------------------------------------------
(* audit (src/manifests/audit_manifests.py) *)

SPLITS == <<"train.jsonl", "dev.jsonl", "test.jsonl">>

\* An audio file of sample rate sr with ch channels.
Audio(sr, ch, n) == [Wav(n) EXCEPT !.samplerate = sr, !.channels = ch]

\* wav.exists(): files_ok += 1
FilesOk(its, files) ==
    {i \in 1..Len(its) : files[its[i].audio_filepath].exists}

\* sf.read raises for a file it cannot decode, and the except clause passes:
\* neither sr_ok nor mono_ok is counted for it, and nothing else is.
Probed(its, files) ==
    {i \in FilesOk(its, files) : files[its[i].audio_filepath].readable}

SplitStats(its, files) ==
    [total |-> Len(its),
     files_exist |-> Cardinality(FilesOk(its, files)),
     sr16k |-> Cardinality({i \in Probed(its, files) :
                  files[its[i].audio_filepath].samplerate = 16000}),
     mono |-> Cardinality({i \in Probed(its, files) :
                  files[its[i].audio_filepath].channels = 1})]

\* spk.add(item.get("speaker_id", ""))
SplitSpeakers(its) == {its[i].speaker_id : i \in 1..Len(its)}

\* combo[(l1, state)] += 1
SplitCombos(its) ==
    [c \in {<<its[i].l1, its[i].state>> : i \in 1..Len(its)} |->
        Cardinality({i \in 1..Len(its) : <<its[i].l1, its[i].state>> = c})]

\* Variant: only the splits next to each other are compared.
AdjacentPairs(present) ==
    {<<SPLITS[i], SPLITS[i + 1]>> :
        i \in {k \in 1..(Len(SPLITS) - 1) :
                  SPLITS[k] \in present /\ SPLITS[k + 1] \in present}}

\* itertools.combinations([s for s in SPLITS if s in speakers], 2)
Combinations(present) ==
    {<<SPLITS[ij[1]], SPLITS[ij[2]]>> :
        ij \in {kl \in (1..Len(SPLITS)) \X (1..Len(SPLITS)) :
                   /\ kl[1] < kl[2]
                   /\ SPLITS[kl[1]] \in present
                   /\ SPLITS[kl[2]] \in present}}

\* leaks[(a, b)] = len(speakers[a].intersection(speakers[b]))
Leaks(speakers) ==
    [ab \in Combinations(DOMAIN speakers) |->
        Cardinality(speakers[ab[1]] \cap speakers[ab[2]])]

\* One round of "for split in SPLITS": a missing file is skipped, an
\* existing one is read and its items counted.
AuditSplit ==
    /\ audit.pc = "scan"
    /\ LET split == SPLITS[audit.k]
           its == disk[split].lines
           nxt == IF audit.k = Len(SPLITS) THEN "leaks" ELSE "scan"
       IN  IF ~disk[split].exists
           THEN audit' = [audit EXCEPT
                    !.out = Append(@, [tag |-> "Skip missing", value |-> split]),
                    !.k = @ + 1,
                    !.pc = nxt]
           ELSE audit' = [audit EXCEPT
                    !.stats = Remember(@, split, SplitStats(its, fs)),
                    !.speakers = Remember(@, split, SplitSpeakers(its)),
                    !.combos = Remember(@, split, SplitCombos(its)),
                    !.k = @ + 1,
                    !.pc = nxt]
    /\ UNCHANGED <<rows, fs, pc, kept, rejected, items, rest, test, train, dev,
                   mode, disk, log, rng, run, first>>

\* The speaker leakage check and the summary.
AuditReport ==
    /\ audit.pc = "leaks"
    /\ audit' = [audit EXCEPT
           !.leaks = Leaks(audit.speakers),
           !.out = @ \o <<[tag |-> "DATA INTEGRITY", value |-> audit.stats],
                          [tag |-> "SPEAKER OVERLAP", value |-> Leaks(audit.speakers)],
                          [tag |-> "counts per split", value |-> audit.combos]>>,
           !.pc = "done"]
    /\ UNCHANGED <<rows, fs, pc, kept, rejected, items, rest, test, train, dev,
                   mode, disk, log, rng, run, first>>

\* The items of the partition files the audit finds: two audio files, two
\* speakers, one of them with a record on each file.
AuditItem(p, lang) ==
    LET r == [Row(p, MsCell(5200), <<"o", "k">>, lang, "F") EXCEPT !.path = p]
    IN  to_jsonl_item(r, make_speaker_ids(<<r>>)[1])
AuditItems == {AuditItem(1, "hindi"), AuditItem(2, "hindi"), AuditItem(2, "tamil")}

\* A partition file: not there, or there with up to MaxAuditLines items.
AuditPartitions ==
    {Absent} \cup {File(its) : its \in UNION {[1..n -> AuditItems] : n \in 0..MaxAuditLines}}

\* The first audio file: missing, undecodable, 16 kHz mono, 8 kHz mono or
\* 16 kHz stereo; the second is 16 kHz mono.
AuditFiles == {Missing, Corrupt, GoodWav, Audio(8000, 1, 41600), Audio(16000, 2, 83200)}

\* The audit is run on whatever partition files are there.
InitAudit ==
    /\ rows = <<>>
    /\ \E f \in AuditFiles : fs = <<f, GoodWav>>
    /\ pc = "done"
    /\ kept = <<>>
    /\ rejected = <<>>
    /\ items = <<>>
    /\ rest = <<>>
    /\ test = <<>>
    /\ train = <<>>
    /\ dev = <<>>
    /\ mode = Pending
    /\ \E parts \in [Range(SPLITS) -> AuditPartitions] :
          disk = [f \in FileNames |-> IF f \in Range(SPLITS) THEN parts[f] ELSE Absent]
    /\ log = <<>>
    /\ rng = <<>>
    /\ run = 1
    /\ first = NoRun
    /\ audit = AuditStart

NextAudit ==
    \/ AuditSplit
    \/ AuditReport

SpecAudit == InitAudit /\ [][NextAudit]_vars

-----------------------------------------------------------------------------
(* Properties *)

SpeakerIds(its) == {its[i].speaker_id : i \in 1..Len(its)}

\* Both split boundaries have been computed.
SplitDone == pc \in {"write_train", "write_dev", "write_test", "done"}

\* The number of SpeakerGroups the kept rows of this manifest form.
KeptGroups ==
    Cardinality(Range(make_speaker_ids(QcKept(rows, fs))))

\* Some label is carried by exactly one group.
Sparse(y) == \E c \in Range(y) : ClassCount(y, c) = 1

PartitionFiles == {"train.jsonl", "dev.jsonl", "test.jsonl"}

\* C1: once the split has completed, the speaker_id sets of train, dev and
\* test are pairwise disjoint, in the partitions computed and in the files
\* written from them: no SpeakerGroup is in two partitions.
C1_SpeakersDisjoint ==
    /\ SplitDone =>
         /\ SpeakerIds(Flatten(train)) \cap SpeakerIds(Flatten(dev)) = {}
         /\ SpeakerIds(Flatten(train)) \cap SpeakerIds(Flatten(test)) = {}
         /\ SpeakerIds(Flatten(dev)) \cap SpeakerIds(Flatten(test)) = {}
    /\ pc = "done" =>
         \A a, b \in PartitionFiles :
            a # b => SpeakerIds(disk[a].lines) \cap SpeakerIds(disk[b].lines) = {}

\* A completed split in which one speaker_id is shared by two records.
C1_Witness ==
    /\ pc = "done"
    /\ \E i, j \in 1..Len(items) : i # j /\ items[i].speaker_id = items[j].speaker_id
    /\ \A a \in PartitionFiles : disk[a].lines # <<>>

\* C2: once the split has completed, train, dev and test together hold every
\* kept record exactly once and no rejected record.
C2_ExactCover ==
    SplitDone =>
        LET all == Flatten(train) \o Flatten(dev) \o Flatten(test)
        IN  /\ Len(all) = Len(kept)
            /\ \A i \in 1..Len(kept) :
                  Cardinality({j \in 1..Len(all) : all[j] = items[i]}) = 1
            /\ \A i \in 1..Len(kept) :
                  Cardinality({j \in 1..Len(all) :
                                  all[j].audio_filepath = kept[i].path}) = 1
            /\ \A j \in 1..Len(all), k \in 1..Len(rejected) :
                  all[j].audio_filepath # rejected[k].row.path

\* A completed split of a manifest of which one row was rejected.
C2_Witness ==
    /\ pc = "done"
    /\ rejected # <<>>
    /\ Len(kept) >= 3

\* C3: the repetition of a run on the same manifest and audio files gives
\* every record the speaker_id it had, and writes the same records in the
\* same order to each partition.
C3_Deterministic ==
    run = 2 =>
        /\ pc \notin {"read", "qc", "write_clean", "write_reject", "items"} =>
              [i \in 1..Len(items) |-> items[i].speaker_id] = first.spk
        /\ SplitDone =>
              /\ Flatten(train) = first.train
              /\ Flatten(dev) = first.dev
              /\ Flatten(test) = first.test
        /\ pc = "done" =>
              /\ disk["train.jsonl"].lines = first.train
              /\ disk["dev.jsonl"].lines = first.dev
              /\ disk["test.jsonl"].lines = first.test

\* The repetition has completed on four groups.
C3_Witness ==
    /\ run = 2
    /\ pc = "done"
    /\ Cardinality(SpeakerIds(items)) >= 4

\* The run has gone wrong only if the manifest was empty or its kept rows
\* form fewer than g groups; otherwise it passes each split boundary it has
\* reached, and when it is done the three partitions are on disk as computed.
CompletesFrom(g) ==
    (rows # <<>> /\ KeptGroups >= g) =>
        /\ pc # "aborted"
        /\ mode.b1 # "error" /\ mode.b2 # "error"
        /\ pc = "done" =>
              /\ disk["train.jsonl"] = File(Flatten(train))
              /\ disk["dev.jsonl"] = File(Flatten(dev))
              /\ disk["test.jsonl"] = File(Flatten(test))

\* C4: a run whose manifest is non-empty and whose kept records form at
\* least three SpeakerGroups passes both split boundaries without aborting
\* and writes train, dev and test.
C4_CompletesFromThree == CompletesFrom(3)

\* C4 as stated: the same from two SpeakerGroups on.
C4_CompletesFromTwo == CompletesFrom(2)

\* A run on exactly three groups is done.
C4_Witness ==
    /\ pc = "done"
    /\ KeptGroups = 3
    /\ \A a \in PartitionFiles : disk[a].exists

\* A boundary that has been attempted on the groups gs, a label of which is
\* carried by one group only, was split without stratification.
Unstratified(b, gs, least) ==
    (mode[b] # "pending" /\ Sparse(Labels(gs)) /\ Len(gs) >= least) =>
        mode[b] \in {"fallback", "unstratified"}

\* C5: at a split boundary of at least two SpeakerGroups where some label is
\* carried by exactly one group, the boundary is split without
\* stratification and its split does not raise.
C5_SparseFallsBack ==
    /\ Unstratified("b1", GroupBySpeaker(items), 2)
    /\ Unstratified("b2", rest, 2)

\* C5 as stated: at every such boundary, whatever its number of groups, and
\* the run does not abort.
C5_SparseNeverAborts ==
    /\ Unstratified("b1", GroupBySpeaker(items), 0)
    /\ Unstratified("b2", rest, 0)
    /\ (mode.b1 # "pending" /\ Sparse(Labels(GroupBySpeaker(items)))) => pc # "aborted"

\* Both boundaries fell back on a sparse label and the run is done.
C5_Witness ==
    /\ pc = "done"
    /\ Sparse(Labels(GroupBySpeaker(items)))
    /\ Sparse(Labels(rest))
    /\ mode.b1 = "fallback"
    /\ mode.b2 = "fallback"

\* C6: whenever a boundary has fallen back to the unstratified split, the
\* run has printed a warning of it.
C6_FallbackLogged ==
    (mode.b1 = "fallback" \/ mode.b2 = "fallback") =>
        \E i \in 1..Len(log) : log[i][1] = "WARNING fallback"

-----------------------------------------------------------------------------
(* Properties of qc_rows *)

\* The quality gate has run.
QcDone == pc = "write_clean"

\* The reasons recorded for the row of path p: none when it was kept.
RecordedReasons(p) ==
    IF \E k \in 1..Len(rejected) : rejected[k].row.path = p
    THEN (CHOOSE rec \in Range(rejected) : rec.row.path = p).reject_reasons
    ELSE <<>>

\* What the manifest and the audio file hold, read off the inputs.
Measurable(f) == f.exists /\ f.readable /\ f.samplerate > 0 /\ f.frames > 0
MeasuredTicks(f) == f.frames * (TARGET_SR \div f.samplerate)
Claimed(r) == r.duration.kind = "num"
ClaimedTicks(r) == r.duration.ms * TicksPerMs
Differ(r, f) ==
    \/ ClaimedTicks(r) - MeasuredTicks(f) > DUR_ABS_TOL
    \/ MeasuredTicks(f) - ClaimedTicks(r) > DUR_ABS_TOL

\* C7: a record with no measurable duration and no claimed duration (an
\* empty or unparseable duration cell) is rejected with no_duration.
C7_NoDuration ==
    QcDone =>
        \A i \in 1..Len(rows) :
            (~Measurable(fs[i]) /\ rows[i].duration.kind \in {"empty", "text"}) =>
                "no_duration" \in Range(RecordedReasons(i))

C9_KeptFrame ==
    [][pc = "qc" =>
        /\ rows' = rows
        /\ \A k \in 1..Len(kept') :
              LET r == rows[kept'[k].path]
                  f == fs[kept'[k].path]
              IN  /\ kept'[k].duration =
                        IF Measurable(f)
                        THEN MsCell((MeasuredTicks(f) + TicksPerMs \div 2) \div TicksPerMs)
                        ELSE r.duration
                  /\ kept'[k] = [r EXCEPT !.duration = kept'[k].duration]]_vars

\* A kept record took the file's 5.20025 s, as 5.200, for the claimed 5.150 s.
C9_Witness ==
    /\ QcDone
    /\ Len(kept) = 1
    /\ fs[1] = Wav(83204) /\ rows[1].duration = MsCell(5150)
    /\ kept[1].duration = MsCell(5200)
    /\ rows[1].duration = MsCell(5150)

\* The reasons the checks of the quality gate give for a row, in their order.
FailedChecks(r, f) ==
    (IF ~f.exists THEN <<"file_missing">> ELSE <<>>)
    \o (IF TokenCount(r.text) < 1 THEN <<"text_too_short">> ELSE <<>>)
    \o (IF ~Measurable(f) /\ ~Claimed(r) THEN <<"no_duration">>
        ELSE LET d == IF Measurable(f) THEN MeasuredTicks(f) ELSE ClaimedTicks(r)
             IN  (IF d < MIN_DUR THEN <<"too_short">> ELSE <<>>)
                 \o (IF d > MAX_DUR THEN <<"too_long">> ELSE <<>>))
    \o (IF Claimed(r) /\ Measurable(f) /\ Differ(r, f)
        THEN <<"duration_mismatch">> ELSE <<>>)

\* C10: the reasons recorded for a record are exactly the checks that fail,
\* in the order file_missing, text_too_short, no_duration or too_short or
\* too_long, duration_mismatch.
C10_AllChecks ==
    QcDone =>
        \A i \in 1..Len(rows) : RecordedReasons(i) = FailedChecks(rows[i], fs[i])

\* The row of path p is among the kept, or among the rejected, records.
IsKept(p) == \E k \in 1..Len(kept) : kept[k].path = p
IsRejected(p) == \E k \in 1..Len(rejected) : rejected[k].row.path = p

\* C11: qc_rows puts every row in exactly one of kept and rejected, both in
\* the order of the input; a row is rejected exactly when one of the checks
\* of the quality gate fails for it, and every rejected record carries at
\* least one reason.
C11_QcPartitions ==
    QcDone =>
        /\ Len(kept) + Len(rejected) = Len(rows)
        /\ \A i \in 1..Len(rows) : IsKept(i) # IsRejected(i)
        /\ \A k, l \in 1..Len(kept) : k < l => kept[k].path < kept[l].path
        /\ \A k, l \in 1..Len(rejected) :
              k < l => rejected[k].row.path < rejected[l].row.path
        /\ \A i \in 1..Len(rows) :
              IsRejected(i) <=> FailedChecks(rows[i], fs[i]) # <<>>
        /\ \A k \in 1..Len(rejected) : rejected[k].reject_reasons # <<>>

-----------------------------------------------------------------------------
(* Properties of make_speaker_ids and pick_domain *)

\* The JSONL items have been built.
ItemsDone == pc = "split_test"

\* The speaker attributes of a row as the identifier reads them.
Attributes(r) ==
    <<IF r.primary_language = "" THEN "UNK" ELSE r.primary_language,
      IF r.native_place_state = "" THEN "UNK" ELSE r.native_place_state,
      IF r.gender = "" THEN "U" ELSE r.gender>>

Padded == <<"0001", "0002", "0003", "0004", "0005", "0006">>

\* C12: the items carry one speaker_id per kept record, in input order: the
\* k-th record with a given (language or UNK, state or UNK, gender or U)
\* has SPK_<language>_<state>_<k in four digits>, whatever records lie
\* between; three records of (hindi, Delhi, F) have SPK_hindi_Delhi_0001,
\* _0002 and _0003.
C12_KthOfTuple ==
    ItemsDone =>
        /\ Len(items) = Len(kept)
        /\ \A i \in 1..Len(kept) :
              LET a == Attributes(kept[i])
                  k == Cardinality({j \in 1..i : Attributes(kept[j]) = a})
              IN  items[i].speaker_id = "SPK_" \o a[1] \o "_" \o a[2] \o "_" \o Padded[k]
        /\ (Len(kept) = 3 /\ \A i \in 1..3 : Attributes(kept[i]) = <<"hindi", "Delhi", "F">>) =>
              [i \in 1..3 |-> items[i].speaker_id] =
                  <<"SPK_hindi_Delhi_0001", "SPK_hindi_Delhi_0002", "SPK_hindi_Delhi_0003">>

\* Two records of (hindi, Delhi, F) with a record of another gender between
\* them have the counts 1 and 2.
C12_Witness ==
    /\ ItemsDone
    /\ Len(kept) = 3
    /\ Attributes(kept[1]) = <<"hindi", "Delhi", "F">>
    /\ Attributes(kept[2]) = <<"hindi", "Delhi", "M">>
    /\ Attributes(kept[3]) = <<"hindi", "Delhi", "F">>
    /\ items[1].speaker_id = "SPK_hindi_Delhi_0001"
    /\ items[3].speaker_id = "SPK_hindi_Delhi_0002"

\* C13: no two records of one input have the same speaker_id, whether their
\* (language, state, gender) are equal or not.
C13_NoCollision ==
    ItemsDone =>
        \A i, j \in 1..Len(items) :
            i # j => items[i].speaker_id # items[j].speaker_id

\* The value of a domain column of a row: "" when the column is not there.
Column(r, c) == IF c \in DOMAIN r THEN r[c] ELSE ""

\* C14: the domain of an item is the record's occupation_domain when that
\* is non-empty, else its job_category when that is non-empty, else
\* "general", an absent column counting as empty; building the items leaves
\* the records as they were.
C14_PickDomain ==
    [][pc = "items" =>
        /\ kept' = kept
        /\ Len(items') = Len(kept)
        /\ \A i \in 1..Len(kept) :
              items'[i].domain =
                  IF Column(kept[i], "occupation_domain") # ""
                  THEN kept[i].occupation_domain
                  ELSE IF Column(kept[i], "job_category") # ""
                       THEN kept[i].job_category
                       ELSE "general"]_vars

\* A record with an empty occupation_domain and the job_category farming
\* has the domain farming.
C14_Witness ==
    /\ ItemsDone
    /\ "occupation_domain" \in DOMAIN kept[1]
    /\ kept[1].occupation_domain = ""
    /\ Column(kept[1], "job_category") = "farming"
    /\ items[1].domain = "farming"

-----------------------------------------------------------------------------
(* Properties of audit *)

\* The overlap the finished audit printed for the partition files a and b.
PrintedOverlap(au, a, b) ==
    LET line == CHOOSE l \in Range(au.out) : l.tag = "SPEAKER OVERLAP"
    IN  IF <<a, b>> \in DOMAIN line.value THEN {line.value[<<a, b>>]}
        ELSE IF <<b, a>> \in DOMAIN line.value THEN {line.value[<<b, a>>]}
        ELSE {}

\* C15: no step of the audit changes a partition file; the finished audit
\* has printed, for every two partition files that exist, the number of
\* speaker_ids they share (0 exactly when they share none) and nothing for
\* a pair with a missing file, which it has reported as skipped.
C15_AuditReadOnly ==
    [][/\ disk' = disk
       /\ audit'.pc = "done" =>
            /\ \A a, b \in PartitionFiles :
                  a # b =>
                     LET shared == SpeakerIds(disk[a].lines) \cap SpeakerIds(disk[b].lines)
                     IN  IF disk[a].exists /\ disk[b].exists
                         THEN /\ PrintedOverlap(audit', a, b) = {Cardinality(shared)}
                              /\ PrintedOverlap(audit', a, b) = {0} <=> shared = {}
                         ELSE PrintedOverlap(audit', a, b) = {}
            /\ \A a \in PartitionFiles :
                  ~disk[a].exists <=>
                     \E l \in Range(audit'.out) :
                        l.tag = "Skip missing" /\ l.value = a]_vars

\* The audit has finished without dev.jsonl and found the one speaker that
\* train.jsonl and test.jsonl share.
C15_Witness ==
    /\ audit.pc = "done"
    /\ ~disk["dev.jsonl"].exists
    /\ disk["train.jsonl"].exists /\ disk["test.jsonl"].exists
    /\ Cardinality(SpeakerIds(disk["train.jsonl"].lines)) = 2
    /\ PrintedOverlap(audit, "train.jsonl", "test.jsonl") = {1}

\* The items of a partition file whose audio file is there and fails to decode.
ProbeFailures(s) ==
    Cardinality({i \in 1..Len(disk[s].lines) :
        LET f == fs[disk[s].lines[i].audio_filepath]
        IN  f.exists /\ ~f.readable})

\* The number of failed probes the statistics of a split give: they hold
\* total, files_exist, sr16k and mono, and a count of failures would be one
\* more entry.
CountedFailures(st) ==
    IF "probe_failures" \in DOMAIN st THEN st.probe_failures ELSE 0

\* C16: the finished audit has processed every record of every partition
\* file that exists, failed probes or not, and its report gives for each
\* file the number of probes that failed.
C16_ProbeFailuresCounted ==
    audit.pc = "done" =>
        \A s \in PartitionFiles :
            disk[s].exists =>
                /\ s \in DOMAIN audit.stats
                /\ audit.stats[s].total = Len(disk[s].lines)
                /\ audit.speakers[s] = SpeakerIds(disk[s].lines)
                /\ CountedFailures(audit.stats[s]) = ProbeFailures(s)

-----------------------------------------------------------------------------
(* Properties of the fatal conditions and of the split boundaries *)

\* C17: a run on a manifest of no rows never gets to the quality gate and
\* writes no artifact; it ends aborted, having printed the diagnostic that
\* names the manifest.
C17_EmptyManifestAborts ==
    rows = <<>> =>
        /\ pc \in {"read", "aborted"}
        /\ \A f \in FileNames : disk[f] = Absent
        /\ pc = "aborted" => log = <<<<"No rows in", "manifest.csv">>>>

\* The run on an empty manifest has aborted.
C17_Witness ==
    /\ rows = <<>>
    /\ pc = "aborted"
    /\ log = <<<<"No rows in", "manifest.csv">>>>
    /\ \A f \in FileNames : ~disk[f].exists

\* C18: a run whose kept records form no or one SpeakerGroup does not get
\* past the first split boundary: the split is not made by the fallback
\* either, the ValueError of the unstratified call ends the run, and no
\* partition file is written.
C18_TooFewGroupsFatal ==
    (rows # <<>> /\ KeptGroups < 2) =>
        /\ pc \notin {"split_dev", "write_train", "write_dev", "write_test", "done"}
        /\ mode.b1 \in {"pending", "error"}
        /\ mode.b2 = "pending"
        /\ \A f \in PartitionFiles : disk[f] = Absent
        /\ pc = "aborted" =>
              /\ mode.b1 = "error"
              /\ log[Len(log)] = <<"ValueError", 0>>

\* The run on a manifest whose kept records form one group has aborted at
\* the first boundary, after the quality gate wrote its two files.
C18_Witness ==
    /\ pc = "aborted"
    /\ KeptGroups = 1
    /\ Len(kept) >= 2
    /\ mode.b1 = "error"
    /\ disk["clean_manifest.csv"].exists
    /\ \A f \in PartitionFiles : ~disk[f].exists

\* Both boundaries have decided on the groups.
Decided == pc = "decided"

\* ceil(0.10 * n)
DevPlaces(n) == (n + 9) \div 10

\* C19 as stated: on the same labels the second boundary stratifies exactly
\* when the first boundary does, or exactly when the first boundary's
\* try/except would at the second boundary's fraction.
C19_SameDecision ==
    Decided =>
        \/ mode.b2 = "stratified" <=> mode.b1 = "stratified"
        \/ mode.b2 = "stratified" <=>
               SplitMode(Labels(rest), TRUE, DEV_FRACTION_OF_REST) = "stratified"

\* C19: on groups of two or more distinct labels the second boundary
\* stratifies exactly when the first boundary's try/except would at the
\* second boundary's fraction, that is when every label is carried by two
\* groups or more and the dev and the train places are no fewer than the
\* labels; groups of a single label it splits without stratification.
C19_SameDecisionFromTwoLabels ==
    Decided =>
        LET n == Len(rest)
            labels == {<<rest[i][1].l1, rest[i][1].state>> : i \in 1..n}
            carried(l) == Cardinality({i \in 1..n : <<rest[i][1].l1, rest[i][1].state>> = l})
            valid == /\ \A l \in labels : carried(l) >= 2
                     /\ DevPlaces(n) >= Cardinality(labels)
                     /\ n - DevPlaces(n) >= Cardinality(labels)
        IN  IF Cardinality(labels) > 1
            THEN /\ mode.b2 = "stratified" <=> valid
                 /\ mode.b2 = "stratified" <=>
                        SplitMode(Labels(rest), TRUE, DEV_FRACTION_OF_REST) = "stratified"
                 /\ mode.b2 \in {"stratified", "fallback"}
            ELSE mode.b2 \in {"unstratified", "error"}

\* Eleven groups of two labels are stratified at both boundaries.
C19_Witness ==
    /\ Decided
    /\ Len(rest) = 11
    /\ Cardinality(Range(Labels(rest))) = 2
    /\ mode.b1 = "stratified"
    /\ mode.b2 = "stratified"

\* The least whole number of places that is pct percent of n or more.
Ceiling(n, pct) == CHOOSE k \in 0..n : 100 * k >= pct * n /\ 100 * (k - 1) < pct * n

-----------------------------------------------------------------------------
(* Properties of build_manifests *)

\* C21: the train, dev and test files build_manifests has written have
\* pairwise disjoint speaker_id sets: all records of one speaker_id are in
\* one partition.
C21_ManifestSpeakersDisjoint ==
    pc = "m_done" =>
        \A a, b \in PartitionFiles :
            a # b => SpeakerIds(disk[a].lines) \cap SpeakerIds(disk[b].lines) = {}

-----------------------------------------------------------------------------
(* Properties of the order of the writes and of the partitions *)

\* A split boundary has yielded its two parts.
Split(b) == mode[b] \in {"stratified", "unstratified", "fallback"}

\* The run is past the quality gate's two writes.
PastQcWrites(at) ==
    at \in {"items", "split_test", "split_dev", "write_train", "write_dev",
            "write_test", "done"}

\* C22: the clean and the rejection CSV change only in the two steps after
\* the quality gate, and are there, with every kept and every rejected
\* record, before the split is attempted; a partition file changes only
\* once both boundaries have been split, train before dev before test; the
\* step in which the split aborts leaves the partition files as they were,
\* not written in a first run, and the rejection CSV holding every rejected
\* record.
C22_WriteOrder ==
    [][/\ disk'["clean_manifest.csv"] # disk["clean_manifest.csv"] =>
             pc = "write_clean"
       /\ disk'["rejected.csv"] # disk["rejected.csv"] =>
             pc = "write_reject" /\ disk["clean_manifest.csv"] = File(kept)
       /\ (PastQcWrites(pc') \/ (pc' = "aborted" /\ rows # <<>>)) =>
             /\ disk'["clean_manifest.csv"] = File(QcKept(rows, fs))
             /\ disk'["rejected.csv"] = File(QcRejected(rows, fs))
       /\ \A f \in PartitionFiles :
             disk'[f] # disk[f] => Split("b1") /\ Split("b2")
       /\ disk'["train.jsonl"] # disk["train.jsonl"] => pc = "write_train"
       /\ disk'["dev.jsonl"] # disk["dev.jsonl"] =>
             pc = "write_dev" /\ disk["train.jsonl"] = File(Flatten(train))
       /\ disk'["test.jsonl"] # disk["test.jsonl"] =>
             pc = "write_test" /\ disk["dev.jsonl"] = File(Flatten(dev))
       /\ pc' = "aborted" =>
             \A f \in PartitionFiles :
                 disk'[f] = disk[f] /\ (run = 1 => disk'[f] = Absent)]_vars

\* The split has aborted at the second boundary: the rejection CSV holds
\* the rejected record and no partition file has been written.
C22_Witness ==
    /\ pc = "aborted"
    /\ mode.b2 = "error"
    /\ rejected # <<>>
    /\ disk["rejected.csv"] = File(rejected)
    /\ disk["clean_manifest.csv"] = File(kept)
    /\ \A f \in PartitionFiles : ~disk[f].exists

\* C23: once both boundaries have been split, train, dev and test each hold
\* at least one SpeakerGroup and every group at least one record; a run
\* that is done has written no empty partition file.
C23_NoEmptyPartition ==
    /\ SplitDone =>
          /\ Len(train) >= 1 /\ Len(dev) >= 1 /\ Len(test) >= 1
          /\ \A g \in Range(train) \cup Range(dev) \cup Range(test) : Len(g) >= 1
    /\ pc = "done" =>
          \A f \in PartitionFiles : disk[f].exists /\ Len(disk[f].lines) >= 1

\* A run on three groups is done: one group, of two records, is the train
\* partition, and dev and test hold one group each.
C23_Witness ==
    /\ pc = "done"
    /\ Len(train) = 1 /\ Len(dev) = 1 /\ Len(test) = 1
    /\ Len(train[1]) = 2
    /\ Len(disk["train.jsonl"].lines) = 2

\* C24: the reasons recorded for a record hold at most one of no_duration,
\* too_short and too_long, and duration_mismatch neither with file_missing
\* nor with no_duration.
C24_ReasonsConstrained ==
    QcDone =>
        \A k \in 1..Len(rejected) :
            LET rs == Range(rejected[k].reject_reasons)
            IN  /\ Cardinality(rs \cap {"no_duration", "too_short", "too_long"}) <= 1
                /\ "duration_mismatch" \in rs =>
                      /\ "file_missing" \notin rs
                      /\ "no_duration" \notin rs
                      /\ fs[rejected[k].row.path].exists

\* 0.299 s of audio claimed as 5.000 s is rejected as too short and as a
\* mismatch.
C24_Witness ==
    /\ QcDone
    /\ fs[1] = Wav(4784) /\ rows[1].duration = MsCell(5000)
    /\ rows[1].text = <<"o", "k">>
    /\ RecordedReasons(1) = <<"too_short", "duration_mismatch">>

====
